---- MODULE Spec2Model ----
(***************************************************************************)
(* Model of the correlation engine of steve/helpers/projects_dataset.py    *)
(* (iter_dataset_rows_from_events, iter_dataset_rows) and of the reader    *)
(* and normalizer of steve/helpers/projects_extract.py (iter_jsonl,        *)
(* extract_events, iter_project_events).                                   *)
(*                                                                         *)
(* A generator call of iter_dataset_rows_from_events is an "instance".     *)
(* Its local variables (recent_messages, pending_by_id, anon_counter) live *)
(* in the frame of that call.  Events are delivered one at a time; the     *)
(* delivered prefix of each instance's input is kept as history.           *)
(***************************************************************************)
EXTENDS Integers, Sequences, FiniteSets, TLC

\* ------------------------------------------------------------------ bounds

\* Most events delivered in all (to one instance, or to two together).
MaxEvents == 4
\* Largest max_context_messages a call is given (it is 0, 1 or MaxWindow).
MaxWindow == 2
\* Most files iter_project_events walks through in the file pipeline.
MaxFiles == 2
\* Longest input stream of SpecWindow.
MaxWindowEvents == 5

\* Longest content list of a record's message.
MaxItems == 2

\* Most lines read in all by the reader.
MaxLines == 4

\* ------------------------------------------------------------ Python values

\* Python's None, a value outside every string alphabet below.
None == "<None>"

\* Variant of Truthy: only None is falsy, "" counts as a value.
TruthyUnlessNone(s) == s # None

\* Truthiness of an optional string: None and "" are falsy.
Truthy(s) == s # None /\ s # ""

\* `a or b` on optional strings.
Or(a, b) == IF Truthy(a) THEN a ELSE b

\* ------------------------------------------------------------------ events

MessageEvent(session_id, uuid, parent_uuid, timestamp, role, text) ==
    [cls |-> "MessageEvent", session_id |-> session_id, uuid |-> uuid,
     parent_uuid |-> parent_uuid, timestamp |-> timestamp, role |-> role,
     text |-> text]

ToolUseEvent(session_id, uuid, parent_uuid, timestamp, role, tool_name, tool_use_id, tool_input) ==
    [cls |-> "ToolUseEvent", session_id |-> session_id, uuid |-> uuid,
     parent_uuid |-> parent_uuid, timestamp |-> timestamp, role |-> role,
     tool_name |-> tool_name, tool_use_id |-> tool_use_id,
     tool_input |-> tool_input]

ToolResultEvent(session_id, uuid, parent_uuid, timestamp, role, tool_use_id, is_error, content_text) ==
    [cls |-> "ToolResultEvent", session_id |-> session_id, uuid |-> uuid,
     parent_uuid |-> parent_uuid, timestamp |-> timestamp, role |-> role,
     tool_use_id |-> tool_use_id, is_error |-> is_error,
     content_text |-> content_text]

IsMessage(ev) == ev.cls = "MessageEvent"
IsToolUse(ev) == ev.cls = "ToolUseEvent"
IsToolResult(ev) == ev.cls = "ToolResultEvent"

\* ------------------------------------------------------------- conversions

RewardIfError == -1
RewardIfOk == 1

\* Variants of _reward_from_tool_result: one that never reads is_error, one
\* with a third value.
RewardIgnoresError(tool_result) == RewardIfOk
RewardPartialCredit(tool_result) == IF tool_result.is_error THEN 0 ELSE RewardIfOk

\* _reward_from_tool_result: -1.0 if tool_result.is_error else 1.0
\* (the two floats are modelled by the integers -1 and 1).
RewardFromToolResult(tool_result) ==
    IF tool_result.is_error THEN RewardIfError ELSE RewardIfOk

\* _msg_to_dict
MsgToDict(m) ==
    [t |-> m.timestamp, role |-> m.role, text |-> m.text, uuid |-> m.uuid,
     parent_uuid |-> m.parent_uuid]

\* The message trace entry built inline in the MessageEvent branch.
MsgTraceDict(ev) ==
    [type |-> "message", t |-> ev.timestamp, role |-> ev.role,
     text |-> ev.text, uuid |-> ev.uuid, parent_uuid |-> ev.parent_uuid]

\* _tool_use_to_dict
ToolUseToDict(tu) ==
    [type |-> "tool_use", t |-> tu.timestamp, tool_name |-> tu.tool_name,
     tool_use_id |-> tu.tool_use_id, tool_input |-> tu.tool_input,
     uuid |-> tu.uuid, parent_uuid |-> tu.parent_uuid]

\* _tool_result_to_dict
ToolResultToDict(tr) ==
    [type |-> "tool_result", t |-> tr.timestamp,
     tool_use_id |-> tr.tool_use_id, is_error |-> tr.is_error,
     content_text |-> tr.content_text, uuid |-> tr.uuid,
     parent_uuid |-> tr.parent_uuid]

\* -------------------------------------------------------- dict and deque

EmptyDict == [k \in {} |-> None]

\* Variant of DictSet, d.setdefault(k, v): an existing key keeps its value.
DictSetDefault(d, k, v) ==
    [x \in DOMAIN d \cup {k} |-> IF x \in DOMAIN d THEN d[x] ELSE v]

\* d[k] = v on a dict: a new key is added, an existing key is overwritten.
DictSet(d, k, v) ==
    [x \in DOMAIN d \cup {k} |-> IF x = k THEN v ELSE d[x]]

\* Variant of DictPop, d.get(k): the entry stays.
DictKeepOnPop(d, k) == d

\* The dict after d.pop(k, None) (k may be absent).
DictPop(d, k) == [x \in DOMAIN d \ {k} |-> d[x]]

\* Variant of DequeAppend: a deque without maxlen.
DequeAppendUnbounded(q, x, maxlen) == Append(q, x)

\* deque(maxlen=maxlen).append(x): a full deque drops its oldest entry first;
\* a deque of maxlen 0 stays empty.
DequeAppend(q, x, maxlen) ==
    IF maxlen = 0 THEN q
    ELSE IF Len(q) >= maxlen THEN Append(Tail(q), x)
    ELSE Append(q, x)

\* ------------------------------------------------------------- the engine

\* The locals of a fresh call (lines 102-106).
InitLocals ==
    [recent_messages |-> <<>>, pending_by_id |-> EmptyDict, anon_counter |-> 0]

\* _PendingTool; src is history: the position of the ToolUseEvent in the
\* instance's input.
PendingTool(tool_use, messages, trace, src) ==
    [tool_use |-> tool_use, messages |-> messages, trace |-> trace, src |-> src]

\* f"anon:{ev.uuid or 'no-uuid'}:{anon_counter}"
AnonKey(uuid, anon_counter) ==
    "anon:" \o Or(uuid, "no-uuid") \o ":" \o ToString(anon_counter)

\* tid = ev.tool_use_id or f"anon:..."
CorrelationKey(ev, anon_counter) ==
    Or(ev.tool_use_id, AnonKey(ev.uuid, anon_counter))

\* Variants of OnMessage: one that enriches a single pending trace, one that
\* enriches whatever the flag says.
OnMessageOnePending(st, ev, maxlen, in_trace) ==
    [recent_messages |-> DequeAppend(st.recent_messages, ev, maxlen),
     pending_by_id |->
        IF in_trace /\ DOMAIN st.pending_by_id # {}
        THEN LET one == CHOOSE x \in DOMAIN st.pending_by_id : TRUE
             IN  [st.pending_by_id EXCEPT
                    ![one].trace = Append(@, MsgTraceDict(ev))]
        ELSE st.pending_by_id,
     anon_counter |-> st.anon_counter]

OnMessageAlwaysTraced(st, ev, maxlen, in_trace) ==
    [recent_messages |-> DequeAppend(st.recent_messages, ev, maxlen),
     pending_by_id |->
        [k \in DOMAIN st.pending_by_id |->
            [st.pending_by_id[k] EXCEPT !.trace = Append(@, MsgTraceDict(ev))]],
     anon_counter |-> st.anon_counter]

\* The MessageEvent branch (lines 109-123).
OnMessage(st, ev, maxlen, in_trace) ==
    [recent_messages |-> DequeAppend(st.recent_messages, ev, maxlen),
     pending_by_id |->
        IF in_trace
        THEN [k \in DOMAIN st.pending_by_id |->
                [st.pending_by_id[k] EXCEPT
                    !.trace = Append(@, MsgTraceDict(ev))]]
        ELSE st.pending_by_id,
     anon_counter |-> st.anon_counter]

\* The ToolUseEvent branch (lines 125-133); idx is the event's position.
OnToolUse(st, ev, idx) ==
    LET n == st.anon_counter + 1
        tid == CorrelationKey(ev, n)
    IN  [recent_messages |-> st.recent_messages,
         pending_by_id |->
            DictSet(st.pending_by_id, tid,
                    PendingTool(ev, st.recent_messages,
                                <<ToolUseToDict(ev)>>, idx)),
         anon_counter |-> n]

\* Variant of DatasetRow: session id and timestamp read from the result.
DatasetRowFromResult(pending, ev) ==
    [session_id |-> Or(ev.session_id, ""),
     t |-> Or(ev.timestamp, pending.tool_use.timestamp),
     messages |-> [k \in 1..Len(pending.messages) |->
                      MsgToDict(pending.messages[k])],
     tool_name |-> pending.tool_use.tool_name,
     tool_input |-> pending.tool_use.tool_input,
     tool_result |-> ToolResultToDict(ev),
     trace |-> Append(pending.trace, ToolResultToDict(ev)),
     reward |-> RewardFromToolResult(ev)]

\* DatasetRow built from a popped pending entry and its result (lines 142-155).
DatasetRow(pending, ev) ==
    [session_id |-> Or(pending.tool_use.session_id, ""),
     t |-> Or(pending.tool_use.timestamp, ev.timestamp),
     messages |-> [k \in 1..Len(pending.messages) |->
                      MsgToDict(pending.messages[k])],
     tool_name |-> pending.tool_use.tool_name,
     tool_input |-> pending.tool_use.tool_input,
     tool_result |-> ToolResultToDict(ev),
     trace |-> Append(pending.trace, ToolResultToDict(ev)),
     reward |-> RewardFromToolResult(ev)]

\* Whether the ToolResultEvent branch gets past its two `continue`s.
Matches(st, ev) ==
    Truthy(ev.tool_use_id) /\ ev.tool_use_id \in DOMAIN st.pending_by_id

\* Variant of AfterToolResult: a result that matches nothing takes some pending
\* invocation with it.
AfterToolResultPositional(st, ev) ==
    IF Matches(st, ev)
    THEN [st EXCEPT !.pending_by_id = DictPop(@, ev.tool_use_id)]
    ELSE IF DOMAIN st.pending_by_id = {} THEN st
    ELSE [st EXCEPT !.pending_by_id =
            DictPop(@, CHOOSE x \in DOMAIN st.pending_by_id : TRUE)]

\* The locals after the ToolResultEvent branch (lines 135-140).
AfterToolResult(st, ev) ==
    IF Matches(st, ev)
    THEN [st EXCEPT !.pending_by_id = DictPop(@, ev.tool_use_id)]
    ELSE st

\* What the ToolResultEvent branch yields: nothing or one row.  use and res are
\* history: the positions of the two events the row was built from.
YieldOfToolResult(st, ev, idx) ==
    IF Matches(st, ev)
    THEN <<[row |-> DatasetRow(st.pending_by_id[ev.tool_use_id], ev),
            use |-> st.pending_by_id[ev.tool_use_id].src, res |-> idx]>>
    ELSE <<>>

\* One iteration of `for ev in events` (lines 108-155).
StepLocals(st, ev, idx, maxlen, in_trace) ==
    IF IsMessage(ev) THEN OnMessage(st, ev, maxlen, in_trace)
    ELSE IF IsToolUse(ev) THEN OnToolUse(st, ev, idx)
    ELSE AfterToolResult(st, ev)

\* Variant of StepYield: an invocation is reported as soon as it is seen.
StepYieldEager(st, ev, idx) ==
    IF IsToolResult(ev) THEN YieldOfToolResult(st, ev, idx)
    ELSE IF IsToolUse(ev)
    THEN <<[row |-> [session_id |-> Or(ev.session_id, ""), t |-> ev.timestamp,
                     messages |-> <<>>, tool_name |-> ev.tool_name,
                     tool_input |-> ev.tool_input,
                     tool_result |-> [type |-> "unresolved"],
                     trace |-> <<ToolUseToDict(ev)>>, reward |-> 0],
             use |-> idx, res |-> idx]>>
    ELSE <<>>

\* What one iteration yields: only the ToolResultEvent branch has a yield.
StepYield(st, ev, idx) ==
    IF IsToolResult(ev) THEN YieldOfToolResult(st, ev, idx) ELSE <<>>

\* Variant of YieldAtEnd: an unresolved row for a pending invocation.
FlushAtEnd(st) ==
    IF DOMAIN st.pending_by_id = {} THEN <<>>
    ELSE LET p == st.pending_by_id[CHOOSE x \in DOMAIN st.pending_by_id : TRUE]
         IN  <<[row |-> [session_id |-> Or(p.tool_use.session_id, ""),
                         t |-> p.tool_use.timestamp,
                         messages |-> <<>>,
                         tool_name |-> p.tool_use.tool_name,
                         tool_input |-> p.tool_use.tool_input,
                         tool_result |-> [type |-> "unresolved"],
                         trace |-> p.trace, reward |-> 0],
                 use |-> p.src, res |-> 0]>>

\* What the generator yields once `for ev in events` is exhausted: the function
\* ends after the loop, whatever is still pending.
YieldAtEnd(st) == <<>>

\* ------------------------------------------------------------ JSON values

\* A decoded JSON value is a tagged record.  A str is kept as its sequence of
\* atoms, an atom being one whitespace character or one run of other
\* characters, so that trimming and joining act on the string's content; a
\* dict is a function from its keys.
JNull == [tag |-> "null", data |-> 0]
JBool(b) == [tag |-> "bool", data |-> b]
JNum(n) == [tag |-> "num", data |-> n]
JStr(atoms) == [tag |-> "str", data |-> atoms]
JList(items) == [tag |-> "list", data |-> items]
JDict(f) == [tag |-> "dict", data |-> f]

\* The str made of one run of non-whitespace characters.
Word(w) == JStr(<<w>>)

\* isinstance(x, str), isinstance(x, list), isinstance(x, dict)
IsStr(x) == x.tag = "str"
IsList(x) == x.tag = "list"
IsDict(x) == x.tag = "dict"

\* The characters str.strip() removes.
Whitespace == {" ", "\n", "\t"}

RECURSIVE LStrip(_)
LStrip(s) ==
    IF s # <<>> /\ Head(s) \in Whitespace THEN LStrip(Tail(s)) ELSE s

RECURSIVE RStrip(_)
RStrip(s) ==
    IF s # <<>> /\ s[Len(s)] \in Whitespace
    THEN RStrip(SubSeq(s, 1, Len(s) - 1)) ELSE s

\* s.strip()
Strip(s) == RStrip(LStrip(s))

\* "\n".join(parts)
RECURSIVE Join(_)
Join(parts) ==
    IF parts = <<>> THEN <<>>
    ELSE IF Len(parts) = 1 THEN parts[1]
    ELSE parts[1] \o <<"\n">> \o Join(Tail(parts))

\* A str that names something (a type, a role, a tool, an id) as a value of
\* the model's events: its atoms put together.  The text and content_text of
\* the events extract_events builds stay sequences of atoms.
RECURSIVE PyStr(_)
PyStr(atoms) == IF atoms = <<>> THEN "" ELSE Head(atoms) \o PyStr(Tail(atoms))

\* d.get(k) on a dict: None (JSON null) when the key is absent.
DictGet(d, k) == IF k \in DOMAIN d.data THEN d.data[k] ELSE JNull

\* x == "literal" for a decoded value x.
StrEq(x, lit) == IsStr(x) /\ PyStr(x.data) = lit

\* bool(x)
Bool(x) ==
    CASE x.tag = "null" -> FALSE
      [] x.tag = "bool" -> x.data
      [] x.tag = "num" -> x.data # 0
      [] x.tag = "str" -> x.data # <<>>
      [] x.tag = "list" -> x.data # <<>>
      [] x.tag = "dict" -> DOMAIN x.data # {}

\* Of the decoded values only a dict has a get method: x.get(...) on anything
\* else raises AttributeError.
HasGet(x) == x.tag = "dict"

\* ----------------------------------------------------- the event normalizer

\* What a call comes to: the list it returns, or an exception.
Returns(evs) == [raised |-> FALSE, events |-> evs]
AttributeError == [raised |-> TRUE, events |-> <<>>]

\* Variant of AndThen: what comes later is put first.
AndThenReversed(r1, r2) ==
    IF r1.raised THEN r1
    ELSE IF r2.raised THEN r2
    ELSE Returns(r2.events \o r1.events)

\* r1 and then r2, in one function body: an exception ends the call.
AndThen(r1, r2) ==
    IF r1.raised THEN r1
    ELSE IF r2.raised THEN r2
    ELSE Returns(r1.events \o r2.events)

\* _get_str
GetStr(d, k) == LET v == DictGet(d, k) IN IF IsStr(v) THEN PyStr(v.data) ELSE None

\* The loop of _extract_text_from_message over a content list (lines 89-93):
\* the text of every dict item of type "text" whose text is a non-empty str.
RECURSIVE TextChunks(_)
TextChunks(content) ==
    IF content = <<>> THEN <<>>
    ELSE LET item == Head(content)
             t == DictGet(item, "text")
         IN  (IF IsDict(item) /\ StrEq(DictGet(item, "type"), "text")
                    /\ IsStr(t) /\ t.data # <<>>
              THEN <<t.data>> ELSE <<>>) \o TextChunks(Tail(content))

\* _extract_text_from_message, as atoms.
ExtractTextFromMessage(message) ==
    IF IsStr(message) THEN message.data
    ELSE IF IsDict(message)
    THEN LET content == DictGet(message, "content")
         IN  IF IsStr(content) THEN content.data
             ELSE IF IsList(content) THEN Strip(Join(TextChunks(content.data)))
             ELSE <<>>
    ELSE <<>>

\* The loop over the chunks of a tool_result's content (lines 177-183).
RECURSIVE ResultChunks(_)
ResultChunks(c) ==
    IF c = <<>> THEN <<>>
    ELSE LET ch == Head(c)
             tx == DictGet(ch, "text")
         IN  (IF IsDict(ch) /\ StrEq(DictGet(ch, "type"), "text")
                    /\ IsStr(tx) /\ tx.data # <<>>
              THEN <<tx.data>> ELSE <<>>) \o ResultChunks(Tail(c))

\* content_text of a tool_result item before the final strip (lines 170-183).
ResultContentText(c) ==
    IF IsStr(c) THEN c.data
    ELSE IF IsList(c) THEN Join(ResultChunks(c.data))
    ELSE <<>>

\* Variant of ItemIsDict: the items of a content list are taken to be dicts.
ItemTakenAsDict(item) == TRUE

\* `if not isinstance(item, dict): continue` (lines 132 and 164).
ItemIsDict(item) == IsDict(item)

\* Variant of NameIsValid: any str will do.
NameIsStr(tool_name) == IsStr(tool_name)

\* The negation of `not isinstance(tool_name, str) or not tool_name` (line 139).
NameIsValid(tool_name) == IsStr(tool_name) /\ tool_name.data # <<>>

\* One turn of the tool_use loop (lines 131-157); env holds the record's
\* session_id, uuid, parent_uuid and timestamp.
ToolUseOfItem(item, env) ==
    IF ~ItemIsDict(item) THEN Returns(<<>>)
    ELSE IF ~HasGet(item) THEN AttributeError
    ELSE IF ~StrEq(DictGet(item, "type"), "tool_use") THEN Returns(<<>>)
    ELSE LET tool_name == DictGet(item, "name")
             tool_use_id == DictGet(item, "id")
             tool_input == DictGet(item, "input")
         IN  IF ~NameIsValid(tool_name) THEN Returns(<<>>)
             ELSE Returns(<<ToolUseEvent(
                    env.session_id, env.uuid, env.parent_uuid, env.timestamp,
                    "assistant", PyStr(tool_name.data),
                    IF IsStr(tool_use_id) THEN PyStr(tool_use_id.data) ELSE None,
                    IF IsDict(tool_input) THEN tool_input.data ELSE EmptyDict)>>)

RECURSIVE ToolUsesOf(_, _)
ToolUsesOf(content, env) ==
    IF content = <<>> THEN Returns(<<>>)
    ELSE AndThen(ToolUseOfItem(Head(content), env),
                 ToolUsesOf(Tail(content), env))

\* One turn of the tool_result loop (lines 163-196); role is the message's.
ToolResultOfItem(item, env, role) ==
    IF ~ItemIsDict(item) THEN Returns(<<>>)
    ELSE IF ~HasGet(item) THEN AttributeError
    ELSE IF ~StrEq(DictGet(item, "type"), "tool_result") THEN Returns(<<>>)
    ELSE LET tool_use_id == DictGet(item, "tool_use_id")
             is_error == Bool(DictGet(item, "is_error"))
             content_text == ResultContentText(DictGet(item, "content"))
         IN  Returns(<<ToolResultEvent(
                    env.session_id, env.uuid, env.parent_uuid, env.timestamp,
                    IF role = None THEN "user" ELSE role,
                    IF IsStr(tool_use_id) THEN PyStr(tool_use_id.data) ELSE None,
                    is_error, Strip(content_text))>>)

RECURSIVE ToolResultsOf(_, _, _)
ToolResultsOf(content, env, role) ==
    IF content = <<>> THEN Returns(<<>>)
    ELSE AndThen(ToolResultOfItem(Head(content), env, role),
                 ToolResultsOf(Tail(content), env, role))

\* The record types extract_events skips (line 109).
InternalTypes == {"file-history-snapshot", "queue-operation", "summary"}

\* record.get("isMeta") is True
IsMetaTrue(record) ==
    LET m == DictGet(record, "isMeta") IN m.tag = "bool" /\ m.data = TRUE

\* Variant of IsFiltered: snapshots and queue operations only.
IsFilteredButSummary(record) ==
    IsMetaTrue(record)
        \/ GetStr(record, "type") \in {"file-history-snapshot", "queue-operation"}

\* The two early returns of extract_events (lines 101-110).
IsFiltered(record) ==
    IsMetaTrue(record) \/ GetStr(record, "type") \in InternalTypes

\* Variant of MessageOf: a message of any role.
MessageOfAnyRole(msg, env, role) ==
    IF IsDict(msg)
    THEN LET text == ExtractTextFromMessage(msg)
         IN  IF text # <<>>
             THEN Returns(<<MessageEvent(env.session_id, env.uuid,
                                         env.parent_uuid, env.timestamp,
                                         role, text)>>)
             ELSE Returns(<<>>)
    ELSE Returns(<<>>)

\* Step 3 of extract_events (lines 198-211).
MessageOf(msg, env, role) ==
    IF IsDict(msg) /\ role \in {"user", "assistant"}
    THEN LET text == ExtractTextFromMessage(msg)
         IN  IF text # <<>>
             THEN Returns(<<MessageEvent(env.session_id, env.uuid,
                                         env.parent_uuid, env.timestamp,
                                         role, text)>>)
             ELSE Returns(<<>>)
    ELSE Returns(<<>>)

\* Variant of ExtractEvents: the record's MessageEvent comes first.
ExtractEventsMessageFirst(record) ==
    IF ~HasGet(record) THEN AttributeError
    ELSE IF IsFiltered(record) THEN Returns(<<>>)
    ELSE LET env == [session_id |-> GetStr(record, "sessionId"),
                     uuid |-> GetStr(record, "uuid"),
                     parent_uuid |-> GetStr(record, "parentUuid"),
                     timestamp |-> GetStr(record, "timestamp")]
             msg == DictGet(record, "message")
             role == IF IsDict(msg) THEN GetStr(msg, "role") ELSE None
             content == IF IsDict(msg) THEN DictGet(msg, "content") ELSE JNull
             uses == IF role = "assistant" /\ IsDict(msg) /\ IsList(content)
                     THEN ToolUsesOf(content.data, env) ELSE Returns(<<>>)
             results == IF IsDict(msg) /\ IsList(content)
                        THEN ToolResultsOf(content.data, env, role)
                        ELSE Returns(<<>>)
         IN  AndThen(MessageOf(msg, env, role), AndThen(uses, results))

\* extract_events (lines 99-213).
ExtractEvents(record) ==
    IF ~HasGet(record) THEN AttributeError
    ELSE IF IsFiltered(record) THEN Returns(<<>>)
    ELSE LET env == [session_id |-> GetStr(record, "sessionId"),
                     uuid |-> GetStr(record, "uuid"),
                     parent_uuid |-> GetStr(record, "parentUuid"),
                     timestamp |-> GetStr(record, "timestamp")]
             msg == DictGet(record, "message")
             role == IF IsDict(msg) THEN GetStr(msg, "role") ELSE None
             content == IF IsDict(msg) THEN DictGet(msg, "content") ELSE JNull
             uses == IF role = "assistant" /\ IsDict(msg) /\ IsList(content)
                     THEN ToolUsesOf(content.data, env) ELSE Returns(<<>>)
             results == IF IsDict(msg) /\ IsList(content)
                        THEN ToolResultsOf(content.data, env, role)
                        ELSE Returns(<<>>)
         IN  AndThen(AndThen(uses, results), MessageOf(msg, env, role))

\* The engine's loop over the events evs, the first of them at position idx
\* of its input: the locals after them and the rows yielded meanwhile.
RECURSIVE FeedAll(_, _, _, _, _)
FeedAll(st, evs, idx, maxlen, in_trace) ==
    IF evs = <<>> THEN [st |-> st, out |-> <<>>]
    ELSE LET rest == FeedAll(StepLocals(st, Head(evs), idx, maxlen, in_trace),
                             Tail(evs), idx + 1, maxlen, in_trace)
         IN  [st |-> rest.st, out |-> StepYield(st, Head(evs), idx) \o rest.out]

\* ------------------------------------------------------- the record reader

\* A line of a file is kept as its sequence of lexemes: whitespace characters,
\* punctuation, literals, and anything else ("junk").  A str literal carries
\* its atoms, a number literal its value.
Lexeme(kind, atoms, n) == [kind |-> kind, atoms |-> atoms, n |-> n]
Punct(c) == Lexeme(c, <<>>, 0)
WsLex(c) == Lexeme("ws", <<c>>, 0)
StrLex(atoms) == Lexeme("str", atoms, 0)
NumLex(n) == Lexeme("num", <<>>, n)

\* line.strip() on lexemes.
RECURSIVE LStripLine(_)
LStripLine(l) ==
    IF l # <<>> /\ Head(l).kind = "ws" THEN LStripLine(Tail(l)) ELSE l

RECURSIVE RStripLine(_)
RStripLine(l) ==
    IF l # <<>> /\ l[Len(l)].kind = "ws"
    THEN RStripLine(SubSeq(l, 1, Len(l) - 1)) ELSE l

StripLine(l) == RStripLine(LStripLine(l))

\* What a parsing step comes to: a value and the lexemes after it, or failure.
Parsed(value, rest) == [ok |-> TRUE, value |-> value, rest |-> rest]
ParseFailure == [ok |-> FALSE, value |-> JNull, rest |-> <<>>]

\* json.loads, by recursive descent over the lexemes that are not whitespace.
RECURSIVE ParseValue(_)
RECURSIVE ParseElements(_, _)
RECURSIVE ParseMembers(_, _)

\* The elements of a list after "[" or ",", up to "]".
ParseElements(toks, acc) ==
    LET r == ParseValue(toks)
    IN  IF ~r.ok \/ r.rest = <<>> THEN ParseFailure
        ELSE IF Head(r.rest).kind = "]"
        THEN Parsed(JList(Append(acc, r.value)), Tail(r.rest))
        ELSE IF Head(r.rest).kind = ","
        THEN ParseElements(Tail(r.rest), Append(acc, r.value))
        ELSE ParseFailure

\* The members of a dict after "{" or ",", up to "}"; a repeated key keeps its
\* last value.
ParseMembers(toks, acc) ==
    IF Len(toks) < 2 \/ toks[1].kind # "str" \/ toks[2].kind # ":"
    THEN ParseFailure
    ELSE LET r == ParseValue(Tail(Tail(toks)))
             d == DictSet(acc, PyStr(toks[1].atoms), r.value)
         IN  IF ~r.ok \/ r.rest = <<>> THEN ParseFailure
             ELSE IF Head(r.rest).kind = "}" THEN Parsed(JDict(d), Tail(r.rest))
             ELSE IF Head(r.rest).kind = "," THEN ParseMembers(Tail(r.rest), d)
             ELSE ParseFailure

ParseValue(toks) ==
    IF toks = <<>> THEN ParseFailure
    ELSE LET h == Head(toks)
             rest == Tail(toks)
         IN  CASE h.kind = "null" -> Parsed(JNull, rest)
               [] h.kind = "true" -> Parsed(JBool(TRUE), rest)
               [] h.kind = "false" -> Parsed(JBool(FALSE), rest)
               [] h.kind = "num" -> Parsed(JNum(h.n), rest)
               [] h.kind = "str" -> Parsed(JStr(h.atoms), rest)
               [] h.kind = "[" ->
                    IF rest # <<>> /\ Head(rest).kind = "]"
                    THEN Parsed(JList(<<>>), Tail(rest))
                    ELSE ParseElements(rest, <<>>)
               [] h.kind = "{" ->
                    IF rest # <<>> /\ Head(rest).kind = "}"
                    THEN Parsed(JDict(EmptyDict), Tail(rest))
                    ELSE ParseMembers(rest, EmptyDict)
               [] OTHER -> ParseFailure

\* json.loads(line): the decoded value, or failure (an exception) when the
\* line is no JSON document or has something after it.
JsonLoads(line) ==
    LET r == ParseValue(SelectSeq(line, LAMBDA x : x.kind # "ws"))
    IN  IF r.ok /\ r.rest = <<>> THEN r ELSE ParseFailure

\* Variant of IsRecord: every decoded value is yielded.
AnyDecodedValue(obj) == TRUE

\* `if isinstance(obj, dict): yield obj` (lines 68-69).
IsRecord(obj) == IsDict(obj)

\* One turn of the loop of iter_jsonl (lines 60-69): what it yields for a line.
IterJsonlLine(raw) ==
    LET line == StripLine(raw)
    IN  IF line = <<>> THEN <<>>
        ELSE LET r == JsonLoads(line)
             IN  IF ~r.ok THEN <<>>
                 ELSE IF IsRecord(r.value) THEN <<r.value>>
                 ELSE <<>>

\* Variant of YieldFrom: the newest events first.
YieldFirst(sofar, evs) == evs \o sofar

\* `yield from extract_events(rec)`: the events follow what was yielded before.
YieldFrom(sofar, evs) == sofar \o evs

\* ------------------------------------------------------------ input events

\* Inputs of the pairing specification: two real ids, one id-less invocation,
\* results that match, repeat, or match nothing.
Messages ==
    {MessageEvent("s1", None, None, None, "user", x) : x \in {"m1", "m2"}}

ToolUses ==
    {ToolUseEvent("s1", None, None, "09:00", "assistant", "Read", id,
                  [path |-> "/f"]) : id \in {None, "t1", "t2"}}
    \cup {ToolUseEvent("s1", None, None, "09:00", "assistant", "Bash", "t1",
                       [command |-> "ls"])}

ToolResults ==
    {ToolResultEvent("s1", None, None, "09:01", "user", "t1", e, "ok") :
        e \in BOOLEAN}
    \cup {ToolResultEvent("s1", None, None, "09:01", "user", id, FALSE, "out") :
            id \in {None, "t2"}}

\* Inputs of SpecWindow.
WindowToolUses ==
    {ToolUseEvent("s1", None, None, "09:00", "assistant", "Read", id,
                  [path |-> "/f"]) : id \in {None, "t1"}}

WindowToolResults ==
    {ToolResultEvent("s1", None, None, "09:01", "user", "t1", FALSE, "ok")}

\* Inputs of SpecAnon: invocations without id (None, or "" with a uuid), two
\* invocations whose real id has the shape of a synthesized key, and results
\* carrying that id, synthesized keys, or "".
AnonMessages == {MessageEvent("s1", None, None, None, "user", "m1")}

AnonToolUses ==
    {ToolUseEvent("s1", None, None, "09:00", "assistant", "Read", None, [path |-> "/f"]),
     ToolUseEvent("s1", "u1", None, "09:00", "assistant", "Read", "", [path |-> "/f"]),
     ToolUseEvent("s1", None, None, "09:00", "assistant", "Read", "anon:no-uuid:3", [path |-> "/f"]),
     ToolUseEvent("s1", None, None, "09:00", "assistant", "Bash", "anon:no-uuid:3", [command |-> "ls"])}

AnonToolResults ==
    {ToolResultEvent("s1", None, None, "09:01", "user", id, FALSE, "ok") :
        id \in {"", "anon:no-uuid:3", "anon:no-uuid:1", "anon:u1:2"}}

\* Inputs of SpecTwo and SpecFiles.
TwoMessages == {MessageEvent("s1", None, None, None, "user", "m1")}

TwoToolUses ==
    {ToolUseEvent("s1", None, None, "09:00", "assistant", "Read", id,
                  [path |-> "/f"]) : id \in {None, "t1"}}

TwoToolResults ==
    {ToolResultEvent("s1", None, None, "09:01", "user", id, e, "ok") :
        id \in {"t1"}, e \in BOOLEAN}

\* Inputs of SpecTrace: invocations with and without session id and timestamp,
\* results of another session, two ids so that two invocations can be pending.
TraceMessages ==
    {MessageEvent("s1", None, None, None, "user", x) : x \in {"m1", "m2"}}

TraceToolUses ==
    {ToolUseEvent("s1", None, None, "09:00", "assistant", "Read", "t1", [path |-> "/f"]),
     ToolUseEvent("s1", None, None, None, "assistant", "Bash", "t1", [command |-> "ls"]),
     ToolUseEvent(None, None, None, "", "assistant", "Read", "t2", [path |-> "/g"])}

TraceToolResults ==
    {ToolResultEvent("s2", None, None, "09:01", "user", id, FALSE, "ok") :
        id \in {"t1", "t2"}}

\* Inputs of SpecExtract.  A key that is left out of a dict is given as Absent.
Absent == [tag |-> "absent", data |-> 0]

\* The dict with the given <<key, value>> pairs, Absent values left out.
DictOf(pairs) ==
    LET present == {p \in pairs : p[2].tag # "absent"}
    IN  JDict([k \in {p[1] : p \in present} |->
                 (CHOOSE p \in present : p[1] = k)[2]])

\* Text values: empty, whitespace only, plain, and plain within whitespace.
TextValues == {JStr(<<>>), JStr(<<" ">>), JStr(<<"hi">>), JStr(<<" ", "hi", " ">>)}

\* Items of a content list that are no dicts.
NonDictItems == {JNum(1), Word("x")}

TextItems ==
    {DictOf({<<"type", Word("text")>>, <<"text", t>>}) :
        t \in {JStr(<<"hi">>), JStr(<<" ">>), JStr(<<"yo", " ">>), JNum(1), Absent}}

ToolUseItems ==
    {DictOf({<<"type", Word("tool_use")>>, <<"name", Word("Read")>>,
             <<"id", Word("t1")>>,
             <<"input", DictOf({<<"path", Word("/f")>>})>>}),
     DictOf({<<"type", Word("tool_use")>>, <<"name", Word("Read")>>,
             <<"input", JList(<<>>)>>})}
    \cup {DictOf({<<"type", Word("tool_use")>>, <<"name", n>>,
                  <<"id", Word("t1")>>}) : n \in {JStr(<<>>), JNum(5), Absent}}

\* Content of a tool_result item: a str, a list of chunks, or something else.
ResultContents ==
    {JStr(<<" ", "ok", " ">>), JStr(<<" ">>),
     JList(<<DictOf({<<"type", Word("text")>>, <<"text", JStr(<<"a", " ">>)>>}),
             JNum(1),
             DictOf({<<"type", Word("image")>>}),
             DictOf({<<"type", Word("text")>>, <<"text", Word("b")>>})>>),
     Absent}

ToolResultItems ==
    {DictOf({<<"type", Word("tool_result")>>, <<"tool_use_id", Word("t1")>>,
             <<"is_error", JBool(TRUE)>>, <<"content", c>>}) :
        c \in ResultContents}
    \cup {DictOf({<<"type", Word("tool_result")>>, <<"content", Word("out")>>}),
          DictOf({<<"type", Word("tool_result")>>, <<"tool_use_id", JNum(1)>>,
                  <<"is_error", Word("yes")>>, <<"content", JNum(0)>>})}

ContentItems == NonDictItems \cup TextItems \cup ToolUseItems \cup ToolResultItems

\* The content lists of at most n items.
RECURSIVE ContentLists(_)
ContentLists(n) ==
    IF n = 0 THEN {<<>>}
    ELSE LET shorter == ContentLists(n - 1)
         IN  shorter \cup {Append(l, i) : l \in shorter, i \in ContentItems}

\* Contents, messages and records with content lists of at most n items.
MessageContents(n) ==
    {JList(l) : l \in ContentLists(n)} \cup TextValues \cup {JNum(1), Absent}

MessageValues(n) ==
    {DictOf({<<"role", r>>, <<"content", c>>}) :
        r \in {Word("user"), Word("assistant"), Word("system"), JNum(3), Absent},
        c \in MessageContents(n)}
    \cup {Word("x"), JList(<<>>), Absent}

\* type and isMeta of a record.
RecordHeaders ==
    {<<t, Absent>> : t \in {Word("assistant"), Word("summary"),
                            Word("file-history-snapshot"),
                            Word("queue-operation"), JList(<<Word("summary")>>),
                            Absent}}
    \cup {<<Word("user"), m>> : m \in {JBool(TRUE), JBool(FALSE), JNum(1),
                                       Word("true")}}

Records(n) ==
    {DictOf({<<"type", h[1]>>, <<"isMeta", h[2]>>, <<"sessionId", Word("s1")>>,
             <<"timestamp", JNum(900)>>, <<"message", m>>}) :
        h \in RecordHeaders, m \in MessageValues(n)}

\* Inputs of SpecJsonl and SpecProject: lines of a file, as lexemes.
StrWord(w) == StrLex(<<w>>)

\* {"message": {"role": "user", "content": "hi"}}
MessageLine ==
    <<Punct("{"), StrWord("message"), Punct(":"), WsLex(" "), Punct("{"),
      StrWord("role"), Punct(":"), StrWord("user"), Punct(","),
      StrWord("content"), Punct(":"), StrWord("hi"), Punct("}"), Punct("}"),
      WsLex("\n")>>

\* {"message": {"role": "assistant", "content":
\*    [{"type": "tool_use", "name": "Read", "id": "t1"},
\*     {"type": "text", "text": "ok"}]}}
ToolUseLine ==
    <<Punct("{"), StrWord("message"), Punct(":"), Punct("{"),
      StrWord("role"), Punct(":"), StrWord("assistant"), Punct(","),
      StrWord("content"), Punct(":"), Punct("["),
      Punct("{"), StrWord("type"), Punct(":"), StrWord("tool_use"), Punct(","),
      StrWord("name"), Punct(":"), StrWord("Read"), Punct(","),
      StrWord("id"), Punct(":"), StrWord("t1"), Punct("}"), Punct(","),
      Punct("{"), StrWord("type"), Punct(":"), StrWord("text"), Punct(","),
      StrWord("text"), Punct(":"), StrWord("ok"), Punct("}"),
      Punct("]"), Punct("}"), Punct("}"), WsLex("\n")>>

\* A dict within whitespace, a blank line, a truncated dict, a dict followed
\* by junk, and the values that are no dict: number, str, list, null.
EmptyDictLine == <<WsLex(" "), Punct("{"), Punct("}"), WsLex(" "), WsLex("\n")>>
BlankLine == <<WsLex(" "), WsLex("\n")>>
TruncatedLine == <<Punct("{"), StrWord("a"), Punct(":"), WsLex("\n")>>
JunkLine == <<Punct("{"), Punct("}"), Lexeme("junk", <<"x">>, 0), WsLex("\n")>>
NumberLine == <<NumLex(1), WsLex("\n")>>
StrLine == <<StrWord("a"), WsLex("\n")>>
ListLine == <<Punct("["), Punct("{"), Punct("}"), Punct("]"), WsLex("\n")>>
NullLine == <<Punct("null"), WsLex("\n")>>

JsonlLines ==
    {MessageLine, EmptyDictLine, BlankLine, TruncatedLine, JunkLine,
     NumberLine, StrLine, ListLine, NullLine}

ProjectLines == {MessageLine, ToolUseLine, BlankLine, NumberLine}

\* Inputs of SpecPipeline: an assistant record that narrates and invokes a
\* tool, one that only invokes it, a user record with the tool's result, and
\* a user record with plain text.
NarratedToolUseRecord ==
    DictOf({<<"type", Word("assistant")>>, <<"uuid", Word("r1")>>,
            <<"message", DictOf({<<"role", Word("assistant")>>,
                <<"content", JList(<<
                    DictOf({<<"type", Word("text")>>,
                            <<"text", JStr(<<"let", " ", "me", " ", "look">>)>>}),
                    DictOf({<<"type", Word("tool_use")>>, <<"name", Word("Read")>>,
                            <<"id", Word("t1")>>,
                            <<"input", DictOf({<<"path", Word("/f")>>})>>})>>)>>})>>})

SilentToolUseRecord ==
    DictOf({<<"type", Word("assistant")>>, <<"uuid", Word("r2")>>,
            <<"message", DictOf({<<"role", Word("assistant")>>,
                <<"content", JList(<<
                    DictOf({<<"type", Word("tool_use")>>, <<"name", Word("Bash")>>,
                            <<"id", Word("t1")>>})>>)>>})>>})

ToolResultRecord ==
    DictOf({<<"type", Word("user")>>, <<"uuid", Word("r3")>>,
            <<"message", DictOf({<<"role", Word("user")>>,
                <<"content", JList(<<
                    DictOf({<<"type", Word("tool_result")>>,
                            <<"tool_use_id", Word("t1")>>,
                            <<"content", Word("ok")>>})>>)>>})>>})

UserTextRecord ==
    DictOf({<<"type", Word("user")>>, <<"uuid", Word("r4")>>,
            <<"message", DictOf({<<"role", Word("user")>>,
                                 <<"content", Word("why")>>})>>})

PipelineRecords ==
    {NarratedToolUseRecord, SilentToolUseRecord, ToolResultRecord,
     UserTextRecord}

\* ------------------------------------------------------------------- state

VARIABLES
    max_context_messages,       \* parameter of the call
    include_messages_in_trace,  \* parameter of the call
    locals,     \* frame -> [recent_messages, pending_by_id, anon_counter]
    out,        \* instance -> rows yielded so far, with their history tags
    delivered,  \* instance -> events consumed so far (history)
    pc,         \* instance -> "running" | "done"
    file_ends,  \* iter_project_events: where each finished file ended in the
                \* event stream of instance 1 (history)
    record,     \* extract_events: the record it is called with
    result,     \* extract_events: what the call came to
    file_no,    \* iter_project_events: the path being read, 1, 2, ..., and 0
                \* once the paths are exhausted
    consumed,   \* the lines read so far, each with its file (history)
    records,    \* what iter_jsonl has yielded so far, with the line it is of
    stream      \* what iter_project_events has yielded so far, with the line

engineVars == <<max_context_messages, include_messages_in_trace, locals, out,
                delivered, pc, file_ends>>
normalizerVars == <<record, result>>
readerVars == <<file_no, consumed, records, stream>>

vars == <<max_context_messages, include_messages_in_trace, locals, out,
          delivered, pc, file_ends, record, result, file_no, consumed,
          records, stream>>

\* extract_events has not been called.
NotCalled == [called |-> FALSE, raised |-> FALSE, events |-> <<>>]

\* No record is being normalized.
IdleNormalizer == record = JDict(EmptyDict) /\ result = NotCalled

\* No file is being read.
IdleReader ==
    file_no = 1 /\ consumed = <<>> /\ records = <<>> /\ stream = <<>>

\* Variant of Frame: module-level state, one frame for every call.
SharedFrame(i) == 1

\* The frame holding the locals of instance i: every call has its own.
Frame(i) == i

Instances == DOMAIN pc

RECURSIVE SumLen(_, _)
SumLen(f, S) ==
    IF S = {} THEN 0
    ELSE LET x == CHOOSE y \in S : TRUE IN Len(f[x]) + SumLen(f, S \ {x})

\* Events delivered so far, over all instances.
TotalDelivered == SumLen(delivered, Instances)

InitWith(insts) ==
    /\ max_context_messages \in {0, 1, MaxWindow}
    /\ include_messages_in_trace \in BOOLEAN
    /\ locals = [f \in {Frame(i) : i \in insts} |-> InitLocals]
    /\ out = [i \in insts |-> <<>>]
    /\ delivered = [i \in insts |-> <<>>]
    /\ pc = [i \in insts |-> "running"]
    /\ file_ends = <<>>
    /\ IdleNormalizer
    /\ IdleReader

Init == InitWith({1})

\* Variant of Deliver: the event after ev is taken from the input as well
\* before ev has been processed.
DeliverReadingAhead(i, ev, bound) ==
    LET idx == Len(delivered[i]) + 1
        st == locals[Frame(i)]
    IN  /\ pc[i] = "running"
        /\ TotalDelivered < bound
        /\ locals' = [locals EXCEPT ![Frame(i)] =
                        StepLocals(st, ev, idx, max_context_messages,
                                   include_messages_in_trace)]
        /\ out' = [out EXCEPT ![i] = @ \o StepYield(st, ev, idx)]
        /\ delivered' = [delivered EXCEPT ![i] = Append(Append(@, ev), ev)]
        /\ UNCHANGED <<max_context_messages, include_messages_in_trace, pc,
                       file_ends, normalizerVars, readerVars>>

\* Variant of Deliver: the newest row is put before the rows already out.
DeliverNewestFirst(i, ev, bound) ==
    LET idx == Len(delivered[i]) + 1
        st == locals[Frame(i)]
    IN  /\ pc[i] = "running"
        /\ TotalDelivered < bound
        /\ locals' = [locals EXCEPT ![Frame(i)] =
                        StepLocals(st, ev, idx, max_context_messages,
                                   include_messages_in_trace)]
        /\ out' = [out EXCEPT ![i] = StepYield(st, ev, idx) \o @]
        /\ delivered' = [delivered EXCEPT ![i] = Append(@, ev)]
        /\ UNCHANGED <<max_context_messages, include_messages_in_trace, pc,
                       file_ends, normalizerVars, readerVars>>

\* Instance i consumes ev, the next event of its input; bound caps the number
\* of events delivered in all.
Deliver(i, ev, bound) ==
    LET idx == Len(delivered[i]) + 1
        st == locals[Frame(i)]
    IN  /\ pc[i] = "running"
        /\ TotalDelivered < bound
        /\ locals' = [locals EXCEPT ![Frame(i)] =
                        StepLocals(st, ev, idx, max_context_messages,
                                   include_messages_in_trace)]
        /\ out' = [out EXCEPT ![i] = @ \o StepYield(st, ev, idx)]
        /\ delivered' = [delivered EXCEPT ![i] = Append(@, ev)]
        /\ UNCHANGED <<max_context_messages, include_messages_in_trace, pc,
                       file_ends, normalizerVars, readerVars>>

DeliverMessage == \E i \in Instances : \E ev \in Messages : Deliver(i, ev, MaxEvents)
DeliverToolUse == \E i \in Instances : \E ev \in ToolUses : Deliver(i, ev, MaxEvents)
DeliverToolResult ==
    \E i \in Instances : \E ev \in ToolResults : Deliver(i, ev, MaxEvents)

\* Variant of EndOfStream: the exhausted input is not noticed and the call
\* stays in its loop.
EndOfStreamUnnoticed ==
    \E i \in Instances : pc[i] = "running" /\ UNCHANGED vars

\* The input of instance i is exhausted: the loop ends and the generator
\* returns.
EndOfStream ==
    \E i \in Instances :
        /\ pc[i] = "running"
        /\ pc' = [pc EXCEPT ![i] = "done"]
        /\ out' = [out EXCEPT ![i] = @ \o YieldAtEnd(locals[Frame(i)])]
        /\ UNCHANGED <<max_context_messages, include_messages_in_trace,
                       locals, delivered, file_ends, normalizerVars,
                       readerVars>>

Next == DeliverMessage \/ DeliverToolUse \/ DeliverToolResult \/ EndOfStream

\* One call of iter_dataset_rows_from_events over real ids.
Spec == Init /\ [][Next]_vars

\* Longer streams over fewer events: enough messages to overflow the window
\* before a ToolUseEvent and to follow it.
DeliverWindowMessage ==
    \E i \in Instances : \E ev \in Messages : Deliver(i, ev, MaxWindowEvents)
DeliverWindowToolUse ==
    \E i \in Instances : \E ev \in WindowToolUses : Deliver(i, ev, MaxWindowEvents)
DeliverWindowToolResult ==
    \E i \in Instances : \E ev \in WindowToolResults : Deliver(i, ev, MaxWindowEvents)

NextWindow ==
    DeliverWindowMessage \/ DeliverWindowToolUse \/ DeliverWindowToolResult
        \/ EndOfStream

SpecWindow == Init /\ [][NextWindow]_vars

\* Id-less invocations, and results whose id has the shape of a synthesized key.
DeliverAnonMessage ==
    \E i \in Instances : \E ev \in AnonMessages : Deliver(i, ev, MaxEvents)
DeliverAnonToolUse ==
    \E i \in Instances : \E ev \in AnonToolUses : Deliver(i, ev, MaxEvents)
DeliverAnonToolResult ==
    \E i \in Instances : \E ev \in AnonToolResults : Deliver(i, ev, MaxEvents)

NextAnon ==
    DeliverAnonMessage \/ DeliverAnonToolUse \/ DeliverAnonToolResult
        \/ EndOfStream

SpecAnon == Init /\ [][NextAnon]_vars

\* Two calls of iter_dataset_rows_from_events advanced in any interleaving.
InitTwo == InitWith({1, 2})

DeliverTwoMessage ==
    \E i \in Instances : \E ev \in TwoMessages : Deliver(i, ev, MaxEvents)
DeliverTwoToolUse ==
    \E i \in Instances : \E ev \in TwoToolUses : Deliver(i, ev, MaxEvents)
DeliverTwoToolResult ==
    \E i \in Instances : \E ev \in TwoToolResults : Deliver(i, ev, MaxEvents)

NextTwo ==
    DeliverTwoMessage \/ DeliverTwoToolUse \/ DeliverTwoToolResult
        \/ EndOfStream

SpecTwo == InitTwo /\ [][NextTwo]_vars

\* iter_dataset_rows: one call fed by iter_project_events, which walks the
\* paths in order and yields the events of each file's records.
\* `for p in paths` moves on to the next file.
NextFile ==
    /\ pc[1] = "running"
    /\ Len(file_ends) + 1 < MaxFiles
    /\ file_ends' = Append(file_ends, Len(delivered[1]))
    /\ UNCHANGED <<max_context_messages, include_messages_in_trace, locals,
                   out, delivered, pc, normalizerVars, readerVars>>

NextFiles ==
    DeliverTwoMessage \/ DeliverTwoToolUse \/ DeliverTwoToolResult
        \/ NextFile \/ EndOfStream

SpecFiles == Init /\ [][NextFiles]_vars

\* Rows and traces: field provenance and trace enrichment.
DeliverTraceMessage ==
    \E i \in Instances : \E ev \in TraceMessages : Deliver(i, ev, MaxEvents)
DeliverTraceToolUse ==
    \E i \in Instances : \E ev \in TraceToolUses : Deliver(i, ev, MaxEvents)
DeliverTraceToolResult ==
    \E i \in Instances : \E ev \in TraceToolResults : Deliver(i, ev, MaxEvents)

NextTrace ==
    DeliverTraceMessage \/ DeliverTraceToolUse \/ DeliverTraceToolResult
        \/ EndOfStream

SpecTrace == Init /\ [][NextTrace]_vars

\* The engine is not running.
IdleEngine ==
    /\ max_context_messages = 0
    /\ include_messages_in_trace = FALSE
    /\ locals = [f \in {Frame(1)} |-> InitLocals]
    /\ out = [i \in {1} |-> <<>>]
    /\ delivered = [i \in {1} |-> <<>>]
    /\ pc = [i \in {1} |-> "running"]
    /\ file_ends = <<>>

\* extract_events is about to be called with a record.
InitExtract ==
    /\ record \in Records(MaxItems)
    /\ result = NotCalled
    /\ IdleEngine
    /\ IdleReader

\* The call of extract_events(record).
CallExtractEvents ==
    /\ ~result.called
    /\ LET r == ExtractEvents(record)
       IN  result' = [called |-> TRUE, raised |-> r.raised, events |-> r.events]
    /\ UNCHANGED <<record, engineVars, readerVars>>

NextExtract == CallExtractEvents

SpecExtract == InitExtract /\ [][NextExtract]_vars

\* No call is running but the reader's.
InitReader == IdleEngine /\ IdleNormalizer /\ IdleReader

\* One turn of `for line in f` in iter_jsonl, and of `for rec in iter_jsonl(p)`
\* in iter_project_events when the line yields a record.  src is history: the
\* position of the line among the lines read.
ReadLine(raw, bound) ==
    LET src == Len(consumed) + 1
        recs == IterJsonlLine(raw)
        evs == IF recs = <<>> THEN <<>> ELSE ExtractEvents(recs[1]).events
    IN  /\ file_no > 0
        /\ Len(consumed) < bound
        /\ consumed' = Append(consumed, [file |-> file_no, line |-> raw])
        /\ records' = records \o
                [k \in 1..Len(recs) |-> [value |-> recs[k], src |-> src]]
        /\ stream' = YieldFrom(stream,
                [k \in 1..Len(evs) |-> [ev |-> evs[k], src |-> src]])
        /\ UNCHANGED <<file_no, engineVars, normalizerVars>>

\* `for p in paths` takes the next path.
NextPath ==
    /\ file_no > 0
    /\ file_no < MaxFiles
    /\ file_no' = file_no + 1
    /\ UNCHANGED <<consumed, records, stream, engineVars, normalizerVars>>

\* The last file is at its end.
EndOfPaths ==
    /\ file_no > 0
    /\ file_no' = 0
    /\ UNCHANGED <<consumed, records, stream, engineVars, normalizerVars>>

\* iter_jsonl over one file.
ReadJsonlLine == \E raw \in JsonlLines : ReadLine(raw, MaxLines)

NextJsonl == ReadJsonlLine \/ EndOfPaths

SpecJsonl == InitReader /\ [][NextJsonl]_vars

\* iter_project_events over the paths.
ReadProjectLine == \E raw \in ProjectLines : ReadLine(raw, MaxLines)

NextProject == ReadProjectLine \/ NextPath \/ EndOfPaths

SpecProject == InitReader /\ [][NextProject]_vars

\* A call over a finite input whose consumer keeps asking for rows: the loop
\* goes on to the next event while there is one and ends when there is none.
SpecTraceLive == Init /\ [][NextTrace]_vars /\ WF_vars(NextTrace)

\* iter_dataset_rows: the engine fed by iter_project_events.  One step takes
\* a record of the current file, normalizes it, and the engine consumes its
\* events one after the other.  src is history: the record an event is of.
ReadRecord(rec, bound) ==
    LET src == Len(consumed) + 1
        evs == ExtractEvents(rec).events
        fed == FeedAll(locals[Frame(1)], evs, Len(delivered[1]) + 1,
                       max_context_messages, include_messages_in_trace)
    IN  /\ pc[1] = "running"
        /\ file_no > 0
        /\ Len(consumed) < bound
        /\ consumed' = Append(consumed, [file |-> file_no, line |-> rec])
        /\ stream' = YieldFrom(stream,
                [k \in 1..Len(evs) |-> [ev |-> evs[k], src |-> src]])
        /\ delivered' = [delivered EXCEPT ![1] = @ \o evs]
        /\ locals' = [locals EXCEPT ![Frame(1)] = fed.st]
        /\ out' = [out EXCEPT ![1] = @ \o fed.out]
        /\ UNCHANGED <<max_context_messages, include_messages_in_trace, pc,
                       file_ends, file_no, records, normalizerVars>>

ReadPipelineRecord == \E rec \in PipelineRecords : ReadRecord(rec, MaxLines)

NextPipeline == ReadPipelineRecord \/ EndOfStream

SpecPipeline == Init /\ [][NextPipeline]_vars

\* The two entry points called without include_messages_in_trace, instance 1
\* through iter_dataset_rows_from_events and instance 2 through
\* iter_dataset_rows (as main of build_projects_dataset does), over the same
\* event sequence.
EntryPointOf == <<"iter_dataset_rows_from_events", "iter_dataset_rows">>

\* Variant of DefaultIncludeMessagesInTrace: one default for both.
DefaultAlwaysInTrace(entry) == TRUE

\* The default of include_messages_in_trace: True at line 95, False at
\* line 162.
DefaultIncludeMessagesInTrace(entry) ==
    IF entry = "iter_dataset_rows_from_events" THEN TRUE ELSE FALSE

\* include_messages_in_trace holds the value each call runs with.
InitEntryPoints ==
    /\ max_context_messages \in {0, 1, MaxWindow}
    /\ include_messages_in_trace =
          [i \in {1, 2} |-> DefaultIncludeMessagesInTrace(EntryPointOf[i])]
    /\ locals = [f \in {Frame(i) : i \in {1, 2}} |-> InitLocals]
    /\ out = [i \in {1, 2} |-> <<>>]
    /\ delivered = [i \in {1, 2} |-> <<>>]
    /\ pc = [i \in {1, 2} |-> "running"]
    /\ file_ends = <<>>
    /\ IdleNormalizer
    /\ IdleReader

\* Both calls consume ev, the next event of the sequence.
DeliverToBoth(ev, bound) ==
    LET idx == Len(delivered[1]) + 1
    IN  /\ \A i \in Instances : pc[i] = "running"
        /\ idx <= bound
        /\ locals' = [f \in DOMAIN locals |->
                        StepLocals(locals[f], ev, idx, max_context_messages,
                                   include_messages_in_trace[f])]
        /\ out' = [i \in Instances |->
                      out[i] \o StepYield(locals[Frame(i)], ev, idx)]
        /\ delivered' = [i \in Instances |-> Append(delivered[i], ev)]
        /\ UNCHANGED <<max_context_messages, include_messages_in_trace, pc,
                       file_ends, normalizerVars, readerVars>>

\* The input is exhausted: both calls return.
EndOfBoth ==
    /\ \A i \in Instances : pc[i] = "running"
    /\ pc' = [i \in Instances |-> "done"]
    /\ UNCHANGED <<max_context_messages, include_messages_in_trace, locals,
                   out, delivered, file_ends, normalizerVars, readerVars>>

NextEntryPoints ==
    \/ \E ev \in TraceMessages : DeliverToBoth(ev, MaxEvents)
    \/ \E ev \in TraceToolUses : DeliverToBoth(ev, MaxEvents)
    \/ \E ev \in TraceToolResults : DeliverToBoth(ev, MaxEvents)
    \/ EndOfBoth

SpecEntryPoints == InitEntryPoints /\ [][NextEntryPoints]_vars

\* ---------------------------------------------------------------- history

\* The rows instance i has yielded.
Rows(i) == [k \in 1..Len(out[i]) |-> out[i][k].row]

\* The rows instance i yielded while consuming its b-th event.
RowsAt(i, b) == {k \in 1..Len(out[i]) : out[i][k].res = b}

Min(a, b) == IF a <= b THEN a ELSE b

\* The MessageEvents among the first n events of h, in delivery order.
MessagesBefore(h, n) == SelectSeq(SubSeq(h, 1, n), IsMessage)

\* The last min(w, Len(s)) entries of s.
LastOf(s, w) ==
    LET m == Min(w, Len(s)) IN [x \in 1..m |-> s[Len(s) - m + x]]

\* The context a ToolUseEvent at position a of h is to be given.
ContextAt(h, a) ==
    LET c == LastOf(MessagesBefore(h, a - 1), max_context_messages)
    IN  [x \in 1..Len(c) |-> MsgToDict(c[x])]

\* ------------------------------------------------------------ C1 .. C6, C10

\* Tool uses among the first n events of h: the value of anon_counter then.
ToolUsesUpTo(h, n) == Len(SelectSeq(SubSeq(h, 1, n), IsToolUse))

\* The key the ToolUseEvent at position a of h is registered under.
KeyAt(h, a) == CorrelationKey(h[a], ToolUsesUpTo(h, a))

\* Positions a < b of h hold a ToolUseEvent with a non-empty id and a
\* ToolResultEvent with the same id, with only MessageEvents in between.
PairAt(h, a, b) ==
    /\ a < b
    /\ IsToolUse(h[a]) /\ Truthy(h[a].tool_use_id)
    /\ IsToolResult(h[b]) /\ h[b].tool_use_id = h[a].tool_use_id
    /\ \A k \in (a + 1)..(b - 1) : IsMessage(h[k])

\* C1: a ToolUseEvent with a non-empty id followed, with only MessageEvents in
\* between, by a ToolResultEvent with the same id yields exactly one row for
\* that pair, with reward 1 when is_error is false and -1 when it is true.
C1_PairEmitsOneRow ==
    \A i \in Instances :
        LET h == delivered[i] IN
        \A a, b \in 1..Len(h) :
            PairAt(h, a, b) =>
                \E k \in 1..Len(out[i]) :
                    /\ RowsAt(i, b) = {k}
                    /\ out[i][k].use = a
                    /\ out[i][k].row.tool_result = ToolResultToDict(h[b])
                    /\ out[i][k].row.reward = IF h[b].is_error THEN -1 ELSE 1

\* A pair with a message in between, resolved by an error result.
C1_Witness ==
    \E i \in Instances :
        LET h == delivered[i] IN
        \E a, b \in 1..Len(h) :
            /\ PairAt(h, a, b) /\ b > a + 1 /\ h[b].is_error
            /\ \E k \in RowsAt(i, b) : out[i][k].row.reward = -1

\* C2: a row's messages are at most max_context_messages long and are exactly
\* the last min(max_context_messages, n) of the n MessageEvents delivered
\* before the row's ToolUseEvent, in order; the same holds of the snapshot of
\* every invocation still pending, whatever was delivered after it.
C2_SnapshotIsWindowBeforeToolUse ==
    \A i \in Instances :
        LET h == delivered[i]
            pend == locals[Frame(i)].pending_by_id
        IN  /\ \A k \in 1..Len(out[i]) :
                /\ Len(out[i][k].row.messages) <= max_context_messages
                /\ out[i][k].row.messages = ContextAt(h, out[i][k].use)
            /\ \A x \in DOMAIN pend :
                [m \in 1..Len(pend[x].messages) |-> MsgToDict(pend[x].messages[m])]
                    = ContextAt(h, pend[x].src)

\* A row whose ToolUseEvent came after more messages than the window holds,
\* with another message delivered between the ToolUseEvent and its result.
C2_Witness ==
    \E i \in Instances :
        LET h == delivered[i] IN
        \E k \in 1..Len(out[i]) :
            /\ max_context_messages >= 1
            /\ Len(MessagesBefore(h, out[i][k].use - 1)) > max_context_messages
            /\ Len(out[i][k].row.messages) = max_context_messages
            /\ \E c \in (out[i][k].use + 1)..(out[i][k].res - 1) : IsMessage(h[c])

\* Positions a1 < a2 < b of h: two ToolUseEvents with the same non-empty id, no
\* ToolResultEvent with that id before b after a1, no further ToolUseEvent
\* registered under it between a2 and b, and at b the next ToolResultEvent
\* with that id.
SupersededAt(h, a1, a2, b) ==
    /\ a1 < a2 /\ a2 < b
    /\ IsToolUse(h[a1]) /\ IsToolUse(h[a2]) /\ IsToolResult(h[b])
    /\ Truthy(h[a1].tool_use_id)
    /\ h[a2].tool_use_id = h[a1].tool_use_id
    /\ h[b].tool_use_id = h[a1].tool_use_id
    /\ \A c \in (a1 + 1)..(b - 1) :
        ~(IsToolResult(h[c]) /\ h[c].tool_use_id = h[a1].tool_use_id)
    /\ \A c \in (a2 + 1)..(b - 1) :
        ~(IsToolUse(h[c]) /\ KeyAt(h, c) = h[a1].tool_use_id)

OrphanResultStep(i) ==
    /\ Len(delivered'[i]) = Len(delivered[i]) + 1
    /\ LET ev == delivered'[i][Len(delivered'[i])]
       IN  /\ IsToolResult(ev)
           /\ \/ ~Truthy(ev.tool_use_id)
              \/ ev.tool_use_id \notin DOMAIN locals[Frame(i)].pending_by_id

\* C4: a ToolResultEvent with no id, or with an id matching no pending
\* invocation, yields no row and leaves the pending table as it was.
C4_OrphanResultChangesNothing ==
    [][\A i \in Instances :
        OrphanResultStep(i) =>
            /\ out'[i] = out[i]
            /\ locals'[Frame(i)].pending_by_id = locals[Frame(i)].pending_by_id]_vars

\* An orphan result was the last event consumed while an invocation with a
\* message in its trace was pending, and it is pending still.
C4_Witness ==
    \E i \in Instances :
        LET h == delivered[i]
            pend == locals[Frame(i)].pending_by_id
        IN  /\ Len(h) >= 3
            /\ IsToolResult(h[Len(h)])
            /\ h[Len(h)].tool_use_id = "t2"
            /\ DOMAIN pend = {"t1"}
            /\ Len(pend["t1"].trace) = 2
            /\ out[i] = <<>>

\* C5: end of stream yields nothing, so pending invocations are dropped: every
\* row ever yielded was built from a ToolUseEvent and a later ToolResultEvent
\* carrying its correlation key, and is complete (it holds that result and its
\* trace ends with it); a ToolUseEvent with no such result has no row.
C5_PendingDroppedAtEnd ==
    /\ [](\A i \in Instances :
            LET h == delivered[i] IN
            /\ \A k \in 1..Len(out[i]) :
                LET r == out[i][k] IN
                /\ r.use \in 1..Len(h) /\ r.res \in 1..Len(h) /\ r.use < r.res
                /\ IsToolUse(h[r.use]) /\ IsToolResult(h[r.res])
                /\ h[r.res].tool_use_id = KeyAt(h, r.use)
                /\ r.row.tool_result = ToolResultToDict(h[r.res])
                /\ r.row.trace[Len(r.row.trace)] = ToolResultToDict(h[r.res])
            /\ \A a \in 1..Len(h) :
                (/\ IsToolUse(h[a])
                 /\ \A b \in (a + 1)..Len(h) :
                        ~(IsToolResult(h[b]) /\ h[b].tool_use_id = KeyAt(h, a)))
                => \A k \in 1..Len(out[i]) : out[i][k].use # a)
    /\ [][\A i \in Instances :
            (pc[i] = "running" /\ pc'[i] = "done") => out'[i] = out[i]]_vars

\* A stream that ended with one invocation resolved and another still pending.
C5_Witness ==
    \E i \in Instances :
        /\ pc[i] = "done"
        /\ Len(out[i]) = 1
        /\ DOMAIN locals[Frame(i)].pending_by_id # {}

\* C6: a matched result removes its invocation, so a later result with the same
\* id, with no ToolUseEvent of that id in between, yields nothing; no
\* ToolUseEvent and no ToolResultEvent is used by two rows, and an event
\* yields at most one row.
C6_OneRowPerPair ==
    \A i \in Instances :
        LET h == delivered[i] IN
        /\ \A k1, k2 \in 1..Len(out[i]) :
            (out[i][k1].use = out[i][k2].use \/ out[i][k1].res = out[i][k2].res)
                => k1 = k2
        /\ \A b1, b2 \in 1..Len(h) :
            (/\ b1 < b2
             /\ IsToolResult(h[b1]) /\ IsToolResult(h[b2])
             /\ h[b2].tool_use_id = h[b1].tool_use_id
             /\ RowsAt(i, b1) # {}
             /\ \A c \in (b1 + 1)..(b2 - 1) :
                    ~(IsToolUse(h[c]) /\ KeyAt(h, c) = h[b1].tool_use_id))
            => RowsAt(i, b2) = {}
        /\ \A k \in 1..Len(out[i]) :
            LET key == h[out[i][k].res].tool_use_id IN
            (\A c \in (out[i][k].res + 1)..Len(h) :
                ~(IsToolUse(h[c]) /\ KeyAt(h, c) = key))
            => key \notin DOMAIN locals[Frame(i)].pending_by_id

\* A matched result followed directly by a second result with the same id.
C6_Witness ==
    \E i \in Instances :
        LET h == delivered[i] IN
        \E b \in 2..(Len(h) - 1) :
            /\ IsToolResult(h[b]) /\ IsToolResult(h[b + 1])
            /\ h[b + 1].tool_use_id = h[b].tool_use_id
            /\ RowsAt(i, b) # {}
            /\ Len(out[i]) = 1

\* C10: the reward of a row is -1 when its resolving result has is_error and
\* 1 otherwise; it is never anything else, and rows whose results agree on
\* is_error have the same reward whatever else differs.
C10_RewardFromErrorFlagOnly ==
    \A i \in Instances :
        LET h == delivered[i] IN
        /\ \A k \in 1..Len(out[i]) :
            /\ out[i][k].row.reward \in {-1, 1}
            /\ out[i][k].row.reward = -1 <=> h[out[i][k].res].is_error
        /\ \A k1, k2 \in 1..Len(out[i]) :
            h[out[i][k1].res].is_error = h[out[i][k2].res].is_error
                => out[i][k1].row.reward = out[i][k2].row.reward

\* Two rows whose results differ in id and content text but not in is_error,
\* and so in nothing the reward reads.
C10_Witness ==
    \E i \in Instances :
        \E k1, k2 \in 1..Len(out[i]) :
            /\ out[i][k1].row.tool_result.tool_use_id
                    # out[i][k2].row.tool_result.tool_use_id
            /\ out[i][k1].row.tool_result.content_text
                    # out[i][k2].row.tool_result.content_text
            /\ out[i][k1].row.tool_result.is_error
                    = out[i][k2].row.tool_result.is_error
            /\ out[i][k1].row.reward = out[i][k2].row.reward

\* ------------------------------------------------------------- C7, C8, C9

\* C7: a ToolUseEvent without tool_use_id (None or "") never yields a row,
\* whatever ToolResultEvents follow it: every row is built from a ToolUseEvent
\* that carries an id.
C7_AnonymousToolUseNeverPaired ==
    \A i \in Instances :
        \A k \in 1..Len(out[i]) :
            Truthy(delivered[i][out[i][k].use].tool_use_id)

\* The rows one call yields for the events evs, fed from position idx on, from
\* locals st and with acc already yielded.
RECURSIVE RunFrom(_, _, _, _)
RunFrom(st, evs, idx, acc) ==
    IF idx > Len(evs) THEN acc
    ELSE RunFrom(StepLocals(st, evs[idx], idx, max_context_messages,
                            include_messages_in_trace),
                 evs, idx + 1,
                 acc \o [k \in 1..Len(StepYield(st, evs[idx], idx)) |->
                            StepYield(st, evs[idx], idx)[k].row])

\* The rows a call of its own yields for the events evs.
RunAlone(evs) == RunFrom(InitLocals, evs, 1, <<>>)

\* The events of the f-th file of the stream h cut at the positions ends.
FileEvents(h, ends, f) ==
    SubSeq(h, IF f = 1 THEN 1 ELSE ends[f - 1] + 1,
              IF f > Len(ends) THEN Len(h) ELSE ends[f])

RECURSIVE RowsFileByFile(_, _, _)
RowsFileByFile(h, ends, f) ==
    IF f > Len(ends) + 1 THEN <<>>
    ELSE RunAlone(FileEvents(h, ends, f)) \o RowsFileByFile(h, ends, f + 1)

\* C8: in iter_dataset_rows no correlation state is shared across files: the
\* rows yielded are those each file's events yield on their own, and when a
\* file starts the rolling window and the pending table hold nothing of the
\* files before it.
C8_NoStateAcrossFiles ==
    /\ Rows(1) = RowsFileByFile(delivered[1], file_ends, 1)
    /\ (file_ends # <<>> /\ file_ends[Len(file_ends)] = Len(delivered[1]))
        => /\ locals[Frame(1)].recent_messages = <<>>
           /\ DOMAIN locals[Frame(1)].pending_by_id = {}

\* C9: the locals are those of one call: every instance, however the two are
\* interleaved, has yielded exactly the rows a call of its own yields for the
\* events it has consumed.
C9_InstancesDoNotInterfere ==
    \A i \in Instances : Rows(i) = RunAlone(delivered[i])

\* Instance 1 holds a pending invocation t1 whose snapshot has a message,
\* while instance 2 has had its own invocation t1 resolved into a row with no
\* context message.
C9_Witness ==
    /\ Instances = {1, 2}
    /\ max_context_messages >= 1
    /\ Len(delivered[1]) = 2
    /\ DOMAIN locals[Frame(1)].pending_by_id = {"t1"}
    /\ Len(locals[Frame(1)].pending_by_id["t1"].messages) = 1
    /\ out[1] = <<>>
    /\ Len(out[2]) = 1
    /\ out[2][1].row.messages = <<>>
    /\ out[2][1].row.tool_result.tool_use_id = "t1"


\* ------------------------------------------------- row fields and the trace

\* Whether an optional string field is there.
Has(v) == v # None /\ v # ""

\* C11: every emitted row has the tool name and tool input of its
\* ToolUseEvent and that event's session id (the empty string when it has
\* none), whatever session id the ToolResultEvent carries; its t is the
\* ToolUseEvent's timestamp, or the ToolResultEvent's when the ToolUseEvent
\* has none.
C11_RowFieldsFromToolUse ==
    \A i \in Instances : \A k \in 1..Len(out[i]) :
        LET r == out[i][k].row
            u == delivered[i][out[i][k].use]
            e == delivered[i][out[i][k].res]
        IN  /\ IsToolUse(u) /\ IsToolResult(e)
            /\ r.tool_name = u.tool_name
            /\ r.tool_input = u.tool_input
            /\ r.session_id = (IF Has(u.session_id) THEN u.session_id ELSE "")
            /\ r.t = (IF Has(u.timestamp) THEN u.timestamp ELSE e.timestamp)

\* A row of a ToolUseEvent of session s1 without timestamp, resolved by a
\* result of session s2: the row is of s1 and has the result's timestamp.
C11_Witness ==
    \E k \in 1..Len(out[1]) :
        LET u == delivered[1][out[1][k].use]
            e == delivered[1][out[1][k].res]
        IN  /\ u.session_id = "s1" /\ e.session_id = "s2"
            /\ u.timestamp = None /\ e.timestamp = "09:01"
            /\ out[1][k].row.session_id = "s1"
            /\ out[1][k].row.t = "09:01"

\* The MessageEvents delivered strictly between positions a and b of h.
MessagesBetween(h, a, b) == SelectSeq(SubSeq(h, a + 1, b - 1), IsMessage)

\* C12: with trace enrichment enabled, a row's trace is the tool_use entry of
\* its ToolUseEvent, then one message entry for every MessageEvent delivered
\* between that event and the resolving ToolResultEvent, in delivery order,
\* then the tool_result entry; nothing delivered earlier is in it.
C12_TraceHoldsInterveningMessages ==
    include_messages_in_trace =>
        \A i \in Instances : \A k \in 1..Len(out[i]) :
            LET h == delivered[i]
                a == out[i][k].use
                b == out[i][k].res
                ms == MessagesBetween(h, a, b)
            IN  out[i][k].row.trace =
                    <<ToolUseToDict(h[a])>>
                        \o [x \in 1..Len(ms) |-> MsgTraceDict(ms[x])]
                        \o <<ToolResultToDict(h[b])>>

\* Two invocations pending at once, then a message, then the first is
\* resolved while the second stays pending: the row's trace holds the message.
C12_Witness ==
    /\ include_messages_in_trace
    /\ Len(delivered[1]) = 4
    /\ \E k \in 1..Len(out[1]) :
          /\ out[1][k].use = 1 /\ out[1][k].res = 4
          /\ IsToolUse(delivered[1][2]) /\ IsMessage(delivered[1][3])
          /\ Len(out[1][k].row.trace) = 3
          /\ out[1][k].row.trace[2] = MsgTraceDict(delivered[1][3])
          /\ DOMAIN locals[Frame(1)].pending_by_id # {}

\* C13: with trace enrichment disabled, a row's trace has exactly two entries,
\* the tool_use entry and then the tool_result entry.
C13_TraceOfTwoWhenDisabled ==
    ~include_messages_in_trace =>
        \A i \in Instances : \A k \in 1..Len(out[i]) :
            out[i][k].row.trace =
                <<ToolUseToDict(delivered[i][out[i][k].use]),
                  ToolResultToDict(delivered[i][out[i][k].res])>>

\* Two messages between a ToolUseEvent and its result, enrichment disabled.
C13_Witness ==
    /\ ~include_messages_in_trace
    /\ \E k \in 1..Len(out[1]) :
          /\ Len(MessagesBetween(delivered[1], out[1][k].use, out[1][k].res)) = 2
          /\ Len(out[1][k].row.trace) = 2


\* ---------------------------------------------------------- extract_events

\* The content list of the record's message, <<>> when there is none.
ContentOf(rec) ==
    LET msg == DictGet(rec, "message")
        content == IF IsDict(msg) THEN DictGet(msg, "content") ELSE JNull
    IN  IF IsList(content) THEN content.data ELSE <<>>

\* The positions of the content list holding a dict of the given type.
ItemsOfType(rec, type) ==
    {k \in 1..Len(ContentOf(rec)) :
        /\ IsDict(ContentOf(rec)[k])
        /\ StrEq(DictGet(ContentOf(rec)[k], "type"), type)}

\* C14: extract_events never raises, whatever is malformed, wrongly typed or
\* missing in the record; it returns a list.
C14_ExtractEventsNeverRaises == result.called => ~result.raised

\* A record whose message has a role that is no str and a content list with an
\* item that is no dict: the call returned the empty list.
C14_Witness ==
    /\ result.called /\ ~result.raised /\ result.events = <<>>
    /\ IsDict(DictGet(record, "message"))
    /\ DictGet(DictGet(record, "message"), "role").tag = "num"
    /\ \E k \in 1..Len(ContentOf(record)) : ~IsDict(ContentOf(record)[k])

\* Whether the record is one extract_events is to ignore: isMeta is the
\* boolean true, or type is one of the three internal kinds.
IsInternalRecord(rec) ==
    LET m == DictGet(rec, "isMeta")
        t == DictGet(rec, "type")
    IN  \/ (m.tag = "bool" /\ m.data)
        \/ StrEq(t, "file-history-snapshot")
        \/ StrEq(t, "queue-operation")
        \/ StrEq(t, "summary")

\* The record without its type and isMeta fields.
Payload(rec) ==
    JDict([k \in DOMAIN rec.data \ {"type", "isMeta"} |-> rec.data[k]])

\* C15: extract_events returns no events for a record whose isMeta is the
\* boolean true or whose type is file-history-snapshot, queue-operation or
\* summary, whatever else the record carries.
C15_InternalRecordsGiveNoEvents ==
    (result.called /\ IsInternalRecord(record)) => result.events = <<>>

\* A summary record whose payload alone gives a ToolUseEvent and a
\* ToolResultEvent.
C15_Witness ==
    /\ result.called /\ result.events = <<>>
    /\ StrEq(DictGet(record, "type"), "summary")
    /\ LET evs == ExtractEvents(Payload(record)).events
       IN  /\ \E k \in 1..Len(evs) : IsToolUse(evs[k])
           /\ \E k \in 1..Len(evs) : IsToolResult(evs[k])

\* C16: every ToolUseEvent extract_events returns has a tool name that is a
\* non-empty str, and nothing is raised over the other tool_use items; a
\* record that is not ignored gives one ToolResultEvent for every tool_result
\* item of its content list, with or without tool_use_id.
C16_ToolNameNonEmptyResultsAlways ==
    result.called =>
        /\ ~result.raised
        /\ \A k \in 1..Len(result.events) :
              IsToolUse(result.events[k]) =>
                  /\ result.events[k].tool_name # None
                  /\ result.events[k].tool_name # ""
        /\ ~IsInternalRecord(record) =>
              Cardinality({k \in 1..Len(result.events) :
                              IsToolResult(result.events[k])})
                  = Cardinality(ItemsOfType(record, "tool_result"))

\* An assistant record with a tool_use item of empty name and a tool_result
\* item without tool_use_id: one event, the ToolResultEvent, with no id.
C16_Witness ==
    /\ result.called
    /\ Len(ContentOf(record)) = 2
    /\ LET u == ContentOf(record)[1]
           r == ContentOf(record)[2]
       IN  /\ IsDict(u) /\ StrEq(DictGet(u, "type"), "tool_use")
           /\ StrEq(DictGet(u, "name"), "")
           /\ IsDict(r) /\ StrEq(DictGet(r, "type"), "tool_result")
           /\ DictGet(r, "tool_use_id").tag = "null"
    /\ StrEq(DictGet(DictGet(record, "message"), "role"), "assistant")
    /\ Len(result.events) = 1
    /\ IsToolResult(result.events[1])
    /\ result.events[1].tool_use_id = None


\* C17: extract_events returns no MessageEvent whose text is empty after
\* trimming whitespace, whether the message's content is a str or a list.
C17_NoBlankMessageEvent ==
    result.called =>
        \A k \in 1..Len(result.events) :
            IsMessage(result.events[k]) => Strip(result.events[k].text) # <<>>

\* The record {"message": {"role": "user", "content": c}}.
MessageRecord(c) ==
    JDict([message |-> JDict([role |-> Word("user"), content |-> c])])

\* The events of the given class among evs.
OfClass(evs, cls) == SelectSeq(evs, LAMBDA e : e.cls = cls)

\* C18: a content value (a str or a list of chunks) is flattened to the same
\* string as the content of a tool_result item and as the content of a
\* message: the content_text of the ToolResultEvent equals the text of the
\* MessageEvent.
C18_SameFlatteningInBothPlaces ==
    (result.called /\ Cardinality(ItemsOfType(record, "tool_result")) = 1) =>
        \A k \in ItemsOfType(record, "tool_result") :
            LET c == DictGet(ContentOf(record)[k], "content")
                trs == OfClass(result.events, "ToolResultEvent")
                ms == OfClass(ExtractEvents(MessageRecord(c)).events,
                              "MessageEvent")
            IN  (trs # <<>> /\ ms # <<>> /\ (IsStr(c) \/ IsList(c))) =>
                    ms[1].text = trs[1].content_text


\* ------------------------------------------------------------- the reader

\* Whether a line is non-empty after trimming, decodes as JSON, and decodes
\* to a dict.
IsRecordLine(raw) ==
    /\ StripLine(raw) # <<>>
    /\ JsonLoads(StripLine(raw)).ok
    /\ IsDict(JsonLoads(StripLine(raw)).value)

\* The positions of the record lines among the lines read, in file order.
RecordLines ==
    SelectSeq([n \in 1..Len(consumed) |-> n],
              LAMBDA n : IsRecordLine(consumed[n].line))

\* C19: iter_jsonl has yielded, in file order, exactly the decoded values of
\* the lines read so far that are non-empty after trimming, decode as JSON
\* and decode to a dict; every other line has added nothing and changed
\* nothing for the lines after it.
C19_YieldsExactlyTheDictLines ==
    records = [k \in 1..Len(RecordLines) |->
                 [value |-> JsonLoads(StripLine(consumed[RecordLines[k]].line)).value,
                  src |-> RecordLines[k]]]

\* A dict line, then a truncated line, a bare number and a blank line, then a
\* dict line again: two values yielded, of the first and the last line.
C19_Witness ==
    /\ Len(consumed) = 4
    /\ consumed[1].line = EmptyDictLine
    /\ consumed[2].line \in {TruncatedLine, JunkLine}
    /\ consumed[3].line \in {NumberLine, BlankLine, NullLine}
    /\ consumed[4].line = MessageLine
    /\ Len(records) = 2
    /\ records[1].src = 1 /\ records[1].value = JDict(EmptyDict)
    /\ records[2].src = 4 /\ IsDict(DictGet(records[2].value, "message"))

\* The events yielded for the line at position n, in the order yielded.
EventsOfLine(n) ==
    LET of == SelectSeq(stream, LAMBDA y : y.src = n)
    IN  [k \in 1..Len(of) |-> of[k].ev]

\* C20: iter_project_events yields the events file by file in the order of
\* the paths, within a file in line order, and the events of one record next
\* to each other, in the order extract_events returned them.
C20_EventsInReaderOrder ==
    /\ \A j, k \in 1..Len(stream) :
          j < k =>
              /\ stream[j].src <= stream[k].src
              /\ consumed[stream[j].src].file <= consumed[stream[k].src].file
    /\ \A k \in 1..Len(stream) :
          \E r \in 1..Len(records) : records[r].src = stream[k].src
    /\ \A r \in 1..Len(records) :
          EventsOfLine(records[r].src) = ExtractEvents(records[r].value).events

\* A line of the first file with one event, then in the second file a line
\* with two events and a line with one: four events, in that order.
C20_Witness ==
    /\ Len(consumed) = 3
    /\ consumed[1].file = 1 /\ consumed[2].file = 2 /\ consumed[3].file = 2
    /\ Len(stream) = 4
    /\ stream[1].src = 1 /\ IsMessage(stream[1].ev)
    /\ stream[2].src = 2 /\ IsToolUse(stream[2].ev)
    /\ stream[3].src = 2 /\ IsMessage(stream[3].ev)
    /\ stream[4].src = 3 /\ IsMessage(stream[4].ev)


\* ------------------------------------------------- emission and termination

\* How many events of h satisfy Test.
CountOf(h, Test(_)) == Len(SelectSeq(h, Test))

HasId(ev) == IsToolResult(ev) /\ ev.tool_use_id # None /\ ev.tool_use_id # ""

\* C21: every row was yielded while a ToolResultEvent was being processed, so
\* there are never more rows than ToolResultEvents with a non-empty id, nor
\* more than ToolUseEvents, and none when no ToolResultEvent was delivered.
C21_RowsOnlyAtToolResults ==
    \A i \in Instances :
        /\ \A k \in 1..Len(out[i]) :
              /\ out[i][k].res \in 1..Len(delivered[i])
              /\ IsToolResult(delivered[i][out[i][k].res])
        /\ Len(out[i]) <= CountOf(delivered[i], HasId)
        /\ Len(out[i]) <= CountOf(delivered[i], IsToolUse)
        /\ CountOf(delivered[i], IsToolResult) = 0 => out[i] = <<>>

\* A stream of MessageEvents only, read to its end: no row.
C21_Witness ==
    /\ pc[1] = "done"
    /\ Len(delivered[1]) >= 2
    /\ CountOf(delivered[1], IsMessage) = Len(delivered[1])
    /\ out[1] = <<>>


\* C22: the engine never reads ahead.  A step takes at most one event from
\* the input, the next one, and the rows it yields are those of that event:
\* they are out before anything after the event is consumed.
C22_NoReadAhead ==
    [][\A i \in Instances :
          /\ \/ delivered'[i] = delivered[i]
             \/ /\ Len(delivered'[i]) = Len(delivered[i]) + 1
                /\ SubSeq(delivered'[i], 1, Len(delivered[i])) = delivered[i]
          /\ Len(out'[i]) >= Len(out[i])
          /\ SubSeq(out'[i], 1, Len(out[i])) = out[i]
          /\ \A k \in (Len(out[i]) + 1)..Len(out'[i]) :
                /\ delivered'[i] # delivered[i]
                /\ out'[i][k].res = Len(delivered'[i])]_vars

\* A row is out and its ToolResultEvent is the last event consumed.
C22_Witness ==
    /\ pc[1] = "running"
    /\ Len(delivered[1]) >= 3
    /\ \E k \in 1..Len(out[1]) : out[1][k].res = Len(delivered[1])


\* C23: over a finite input the call comes to its end, after the last event
\* was consumed, and stays there; it has yielded at most one row per event
\* consumed.
C23_TerminatesOnFiniteInput ==
    /\ <>[](\A i \in Instances : pc[i] = "done")
    /\ [](\A i \in Instances : Len(out[i]) <= Len(delivered[i]))
    /\ [][\A i \in Instances :
            pc[i] = "done" =>
                /\ pc'[i] = "done"
                /\ delivered'[i] = delivered[i]
                /\ out'[i] = out[i]]_vars

\* A call that has ended after consuming events and yielding a row.
C23_Witness ==
    /\ pc[1] = "done"
    /\ Len(delivered[1]) >= 3
    /\ Len(out[1]) >= 1


\* ------------------------------------------------------------ keys and order

\* The ToolUseEvent at position a of h is still pending when the one at
\* position b is registered under the same key.
OverwrittenAt(h, a, b) ==
    /\ a < b
    /\ IsToolUse(h[a]) /\ IsToolUse(h[b])
    /\ KeyAt(h, a) = KeyAt(h, b)
    /\ \A c \in (a + 1)..(b - 1) :
          ~(IsToolResult(h[c]) /\ h[c].tool_use_id = KeyAt(h, a))

\* C24: a pending invocation is overwritten only by a ToolUseEvent carrying
\* the same real id: a ToolUseEvent without id neither overwrites nor is
\* overwritten.
C24_SynthesizedKeysUnique ==
    \A i \in Instances :
        LET h == delivered[i] IN
        \A a, b \in 1..Len(h) :
            OverwrittenAt(h, a, b) =>
                /\ Truthy(h[a].tool_use_id) /\ Truthy(h[b].tool_use_id)
                /\ h[a].tool_use_id = h[b].tool_use_id


\* ------------------------------------------------ order and roles of events

\* The positions of the content list, in order, whose item satisfies Test.
ItemsWhere(rec, Test(_)) ==
    SelectSeq([n \in 1..Len(ContentOf(rec)) |-> n],
              LAMBDA n : Test(ContentOf(rec)[n]))

IsToolUseItem(item) ==
    /\ IsDict(item) /\ StrEq(DictGet(item, "type"), "tool_use")
    /\ IsStr(DictGet(item, "name")) /\ DictGet(item, "name").data # <<>>

IsToolResultItem(item) ==
    IsDict(item) /\ StrEq(DictGet(item, "type"), "tool_result")

\* The id an event is to carry for an item's id field.
IdOf(field) == IF IsStr(field) THEN PyStr(field.data) ELSE None

\* C25: extract_events returns all ToolUseEvents, in the order of their items
\* in the content list, then all ToolResultEvents, in the order of their
\* items, then at most one MessageEvent.
C25_EventsInFixedOrder ==
    result.called =>
        LET evs == result.events
            uses == OfClass(evs, "ToolUseEvent")
            trs == OfClass(evs, "ToolResultEvent")
            ms == OfClass(evs, "MessageEvent")
            ui == ItemsWhere(record, IsToolUseItem)
            ri == ItemsWhere(record, IsToolResultItem)
        IN  /\ evs = uses \o trs \o ms
            /\ Len(ms) <= 1
            /\ uses # <<>> =>
                  /\ Len(uses) = Len(ui)
                  /\ \A k \in 1..Len(ui) :
                        LET item == ContentOf(record)[ui[k]]
                        IN  /\ uses[k].tool_name = PyStr(DictGet(item, "name").data)
                            /\ uses[k].tool_use_id = IdOf(DictGet(item, "id"))
            /\ trs # <<>> =>
                  /\ Len(trs) = Len(ri)
                  /\ \A k \in 1..Len(ri) :
                        LET item == ContentOf(record)[ri[k]]
                        IN  /\ trs[k].tool_use_id = IdOf(DictGet(item, "tool_use_id"))
                            /\ trs[k].is_error = Bool(DictGet(item, "is_error"))

\* An assistant record whose content list has a tool_result item before a
\* tool_use item: the ToolUseEvent is returned first.
C25_Witness ==
    /\ result.called
    /\ Len(ContentOf(record)) = 2
    /\ IsToolResultItem(ContentOf(record)[1])
    /\ IsToolUseItem(ContentOf(record)[2])
    /\ Len(result.events) = 2
    /\ IsToolUse(result.events[1])
    /\ IsToolResult(result.events[2])


\* The role field of the record's message, JSON null when there is none.
RoleOf(rec) ==
    LET msg == DictGet(rec, "message")
    IN  IF IsDict(msg) THEN DictGet(msg, "role") ELSE JNull

\* C27: extract_events returns a ToolUseEvent only when the message's role
\* is "assistant" and a MessageEvent only when it is "user" or "assistant";
\* the tool_result items of a record that is not ignored each give a
\* ToolResultEvent whatever the role is, also when there is none.
C27_RoleGating ==
    result.called =>
        LET evs == result.events
        IN  /\ OfClass(evs, "ToolUseEvent") # <<>> =>
                  StrEq(RoleOf(record), "assistant")
            /\ OfClass(evs, "MessageEvent") # <<>> =>
                  \/ StrEq(RoleOf(record), "user")
                  \/ StrEq(RoleOf(record), "assistant")
            /\ ~IsInternalRecord(record) =>
                  Len(OfClass(evs, "ToolResultEvent"))
                      = Len(ItemsWhere(record, IsToolResultItem))

\* A record whose message has no role, with a tool_use item and a tool_result
\* item: the ToolResultEvent alone is returned.
C27_Witness ==
    /\ result.called
    /\ IsDict(DictGet(record, "message"))
    /\ RoleOf(record).tag = "null"
    /\ Len(ContentOf(record)) = 2
    /\ IsToolUseItem(ContentOf(record)[1])
    /\ IsToolResultItem(ContentOf(record)[2])
    /\ Len(result.events) = 1
    /\ IsToolResult(result.events[1])


\* ------------------------------------------------------------- the pipeline

\* The MessageEvents of the records before record n, in stream order.
MessagesOfEarlierRecords(n) ==
    LET earlier == SelectSeq(stream, LAMBDA y : y.src < n /\ IsMessage(y.ev))
    IN  [k \in 1..Len(earlier) |-> earlier[k].ev]

\* The MessageEvents of record n itself.
MessagesOfRecord(n) ==
    LET own == SelectSeq(stream, LAMBDA y : y.src = n /\ IsMessage(y.ev))
    IN  [k \in 1..Len(own) |-> own[k].ev]

CrossedAt(h, a, b, c, d) ==
    /\ a < b /\ b < c /\ c < d
    /\ IsToolUse(h[a]) /\ IsToolUse(h[b])
    /\ IsToolResult(h[c]) /\ IsToolResult(h[d])
    /\ Truthy(h[a].tool_use_id) /\ Truthy(h[b].tool_use_id)
    /\ h[a].tool_use_id # h[b].tool_use_id
    /\ h[c].tool_use_id = h[b].tool_use_id
    /\ h[d].tool_use_id = h[a].tool_use_id
    /\ \A x \in (a + 1)..(d - 1) : x \in {b, c} \/ IsMessage(h[x])

\* C28: the rows are out in the order in which their ToolResultEvents were
\* delivered; for ToolUse(A), ToolUse(B), ToolResult(B), ToolResult(A) both
\* rows are out, the row of B before the row of A.
C28_RowsInResultOrder ==
    \A i \in Instances :
        LET h == delivered[i] IN
        /\ \A j, k \in 1..Len(out[i]) : j < k => out[i][j].res < out[i][k].res
        /\ \A a, b, c, d \in 1..Len(h) :
              CrossedAt(h, a, b, c, d) =>
                  \E j, k \in 1..Len(out[i]) :
                      /\ j < k
                      /\ out[i][j].use = b /\ out[i][j].res = c
                      /\ out[i][k].use = a /\ out[i][k].res = d

\* ToolUse(t1), ToolUse(t2), ToolResult(t2), ToolResult(t1): two rows, of t2
\* and then of t1.
C28_Witness ==
    /\ Len(delivered[1]) = 4
    /\ CrossedAt(delivered[1], 1, 2, 3, 4)
    /\ Len(out[1]) = 2
    /\ out[1][1].row.tool_result.tool_use_id = "t2"
    /\ out[1][2].row.tool_result.tool_use_id = "t1"


\* ------------------------------------------------------ the empty-string id

\* The event an instance has just consumed carries the tool_use_id "".
EmptyIdAt(h, n) ==
    /\ n > 0
    /\ IsToolUse(h[n]) \/ IsToolResult(h[n])
    /\ h[n].tool_use_id = ""

\* C29: "" counts as no tool_use_id on both sides: a ToolUseEvent with
\* tool_use_id "" is registered under its synthesized key and never under "",
\* a ToolResultEvent with tool_use_id "" changes nothing and yields nothing,
\* and no row pairs a ToolUseEvent with "" and a ToolResultEvent with "".
C29_EmptyIdCountsAsAbsent ==
    [][\A i \in Instances :
        LET h == delivered'[i]
            n == Len(h)
            pending == locals'[Frame(i)].pending_by_id
            key == AnonKey(h[n].uuid, ToolUsesUpTo(h, n))
        IN  /\ (Len(h) = Len(delivered[i]) + 1 /\ EmptyIdAt(h, n)) =>
                /\ out'[i] = out[i]
                /\ "" \notin DOMAIN pending
                /\ IsToolUse(h[n]) =>
                      /\ key \in DOMAIN pending
                      /\ pending[key].src = n
                      /\ pending[key].tool_use = h[n]
                /\ IsToolResult(h[n]) => locals'[Frame(i)] = locals[Frame(i)]
            /\ \A k \in 1..Len(out'[i]) :
                  ~ /\ h[out'[i][k].use].tool_use_id = ""
                    /\ h[out'[i][k].res].tool_use_id = ""]_vars

\* A ToolUseEvent with "" and then a ToolResultEvent with "": no row, the
\* invocation still pending under "anon:u1:1".
C29_Witness ==
    /\ Len(delivered[1]) = 2
    /\ IsToolUse(delivered[1][1]) /\ delivered[1][1].tool_use_id = ""
    /\ IsToolResult(delivered[1][2]) /\ delivered[1][2].tool_use_id = ""
    /\ out[1] = <<>>
    /\ DOMAIN locals[Frame(1)].pending_by_id = {"anon:u1:1"}


\* ------------------------------------------------------------ entry points

\* The trace entries of the MessageEvents of ms.
MsgTraceDicts(ms) == [k \in 1..Len(ms) |-> MsgTraceDict(ms[k])]

\* C30: called without the flag on the same event sequence, the two entry
\* points yield the same rows up to the trace: iter_dataset_rows_from_events
\* puts the messages between the invocation and its result in the trace,
\* iter_dataset_rows yields traces of exactly [tool_use, tool_result].
C30_EntryPointDefaultsDiffer ==
    LET h == delivered[1] IN
    /\ Len(out[1]) = Len(out[2])
    /\ \A k \in 1..Len(out[2]) :
          LET a == out[2][k].use
              b == out[2][k].res
          IN  /\ out[1][k].use = a /\ out[1][k].res = b
              /\ out[2][k].row.trace =
                    <<ToolUseToDict(h[a]), ToolResultToDict(h[b])>>
              /\ out[1][k].row.trace =
                    <<ToolUseToDict(h[a])>>
                        \o MsgTraceDicts(MessagesBetween(h, a, b))
                        \o <<ToolResultToDict(h[b])>>
              /\ [out[1][k].row EXCEPT !.trace = out[2][k].row.trace]
                    = out[2][k].row

\* An invocation, a message, the result: a trace of three entries from
\* iter_dataset_rows_from_events, of two from iter_dataset_rows.
C30_Witness ==
    /\ Len(delivered[1]) = 3
    /\ IsToolUse(delivered[1][1])
    /\ IsMessage(delivered[1][2])
    /\ IsToolResult(delivered[1][3])
    /\ Len(out[1]) = 1 /\ Len(out[2]) = 1
    /\ Len(out[1][1].row.trace) = 3
    /\ out[1][1].row.trace[2].type = "message"
    /\ Len(out[2][1].row.trace) = 2

====
